---- MODULE Spec2Model ----
(***************************************************************************)
(* A model of the Ontology adapter of TrustedBench                         *)
(* (src/src/ontology/ontology.js): wallet decryption in the constructor,   *)
(* the contract registry (contractAbiInfo) filled by installSmartContract, *)
(* ABI binding and submission in invokeSmartContract and transfer, the     *)
(* promise callbacks that settle a submission, and the block poller        *)
(* waitABlock.                                                             *)
(*                                                                         *)
(* JavaScript runs each function to its next await in one piece, so one    *)
(* action is one such piece: a synchronous call, a promise callback, or    *)
(* the part of an async function between two awaits.                       *)
(***************************************************************************)
EXTENDS Integers, Sequences, FiniteSets, TLC

VARIABLES
    adapter,          \* "none" | "ready" | "failed": what `new Ontology(...)` gave
    constructError,   \* message of the error the constructor threw ("" if none)
    walletFile,       \* the wallet file and password the configuration names
    contractConfig,   \* blockChainConfig.ontology.contract
    privateKey,       \* this.privateKey (NoKey until decrypted)
    contractAbiInfo,  \* this.contractAbiInfo: a Map, here a function on the set names
    deployTxs,        \* serialized deploy transactions handed to NetUtil.postTx
    deployAcks,       \* what NetUtil.postTx answered for each of them, if it has
    events,           \* history: the steps of installSmartContract, in order
    calls,            \* invokeSmartContract / transfer calls made so far
    height,           \* the network's block height (NetUtil.getHeight)
    wpc,              \* waitABlock: "idle" | "base" | "read" | "sleep" | "done"
    wowner,           \* who awaits waitABlock: "none" | "install" | "direct"
    currnetHeight,    \* waitABlock's baseline (the source's spelling)
    newHeight,        \* waitABlock's latest reading
    obs,              \* history: the readings waitABlock took, baseline first
    polls,            \* history: readings taken inside the loop
    sleeps,           \* history: Util.sleep(1000) calls
    installs          \* history: installSmartContract calls whose forEach has run

vars == <<adapter, constructError, walletFile, contractConfig, privateKey,
          contractAbiInfo, deployTxs, deployAcks, events, calls, height, wpc, wowner,
          currnetHeight, newHeight, obs, polls, sleeps, installs>>

waitVars == <<wpc, wowner, currnetHeight, newHeight, obs, polls, sleeps>>

-----------------------------------------------------------------------------
(* Bounds of the model *)

MaxCalls == 1        \* invoke/transfer calls per behaviour
MaxInstalls == 2     \* installSmartContract calls per behaviour
MaxHeight == 101     \* the network height stops growing here
MaxPolls == 4        \* the history counters polls and sleeps saturate here
MaxFlight == 2       \* calls per behaviour of FlightSpec

(* Program constants *)

GasPrice == 0
GasLimit == 20000000

NoKey == "undefined"
TheKey == "privateKey"
Address == "payer"

-----------------------------------------------------------------------------
(* Inputs: files on disk, wallets, call arguments, transport answers *)

Param(n, t, v) == [name |-> n, type |-> t, value |-> v]

NoValue == "undefined"   \* a parameter nobody has given a value

\* The ABI files of the configuration, as parsed JSON.
AbiF == [functions |-> << [name |-> "f",
                           parameters |-> << Param("x", "Integer", NoValue),
                                             Param("y", "Integer", NoValue) >>] >>]
AbiG == [functions |-> << [name |-> "g",
                           parameters |-> << Param("x", "Integer", NoValue) >>] >>]

ReadFileSync(path) ==
    CASE path = "one.avm" -> 1
      [] path = "two.avm" -> 2
      [] path = "f.abi.json" -> AbiF
      [] path = "g.abi.json" -> AbiG

Descriptor(n, p, a) == [name |-> n, path |-> p, abi |-> a]

TokenF == Descriptor("Token", "one.avm", "f.abi.json")
TokenG == Descriptor("Token", "two.avm", "g.abi.json")
OtherG == Descriptor("Other", "one.avm", "g.abi.json")

Configs == { <<TokenF>>, <<TokenF, TokenG>>, <<OtherG, TokenF>> }

ContractNames == {"Token", "Other"}
FuncNames == {"f", "g"}

\* The wallet file with the configured password: decryption succeeds only for
\* an intact key of an existing first account under the right password.
Wallets ==
    { [hasAccount |-> TRUE,  intact |-> TRUE,  keyPassword |-> "pw", password |-> "pw"],
      [hasAccount |-> TRUE,  intact |-> TRUE,  keyPassword |-> "pw", password |-> "bad"],
      [hasAccount |-> TRUE,  intact |-> FALSE, keyPassword |-> "pw", password |-> "pw"],
      [hasAccount |-> FALSE, intact |-> TRUE,  keyPassword |-> "pw", password |-> "pw"] }

\* The args object of an invoke: func may be an own property, inherited from
\* the prototype, or absent; args.args may be missing.
InvokeArgs ==
    { [funcOwn |-> "absent", func |-> "", hasArgs |-> TRUE, args |-> <<"v1">>],
      [funcOwn |-> "absent", func |-> "", hasArgs |-> FALSE, args |-> <<>>],
      [funcOwn |-> "inherited", func |-> "f", hasArgs |-> TRUE, args |-> <<"v1", "v2">>],
      [funcOwn |-> "own", func |-> "f", hasArgs |-> FALSE, args |-> <<>>] }
    \cup
    { [funcOwn |-> "own", func |-> f, hasArgs |-> TRUE, args |-> a] :
          f \in FuncNames, a \in {<<"v1">>, <<"v1", "v2">>} }

\* What NetUtil.postTx resolves to.
Results == {-1, 0, 1}

\* Hashes are hex strings, here sequences of bytes.
TransferHashes == { <<10, 11>> }
TransferData == { "raw" }

-----------------------------------------------------------------------------
(* The SDK and transport calls the adapter makes, by what they do *)

\* PrivateKey.decrypt: the key, or a throw.
DecryptFails(w) == ~w.hasAccount \/ ~w.intact \/ w.password # w.keyPassword

\* AbiInfo.parseJson, with the vmCode the adapter attaches to it.
AbiInfoOf(abiJson, vmCode) == [functions |-> abiJson.functions, vmCode |-> vmCode]

\* Address.fromVmCode: one address per bytecode.
AddressFromVmCode(vmCode) == 2 * vmCode + 1

Ord(s) ==
    CASE s = "f" -> 1 [] s = "g" -> 2 [] s = "Token" -> 3 [] s = "Other" -> 4
      [] OTHER -> 0

ValueOrd(v) == CASE v = "v1" -> 1 [] v = "v2" -> 2 [] OTHER -> 0

RECURSIVE Digest(_)
Digest(vs) ==
    IF vs = <<>> THEN 0 ELSE (3 * Digest(Tail(vs)) + ValueOrd(Head(vs))) % 16

MakeDeployCodeTransaction(vmCode, name, gasPrice, gasLimit, payer) ==
    [type |-> "deploy", code |-> vmCode, name |-> name, func |-> "", params |-> <<>>,
     gasPrice |-> gasPrice, gasLimit |-> gasLimit, payer |-> payer, sigs |-> <<>>]

MakeInvokeTransaction(funcName, parameters, contractAddr, gasPrice, gasLimit, payer) ==
    [type |-> "invoke", code |-> contractAddr, name |-> "", func |-> funcName,
     params |-> [i \in 1..Len(parameters) |-> parameters[i].value],
     gasPrice |-> gasPrice, gasLimit |-> gasLimit, payer |-> payer, sigs |-> <<>>]

SignTransaction(tx, key) == [tx EXCEPT !.sigs = Append(@, key)]

\* tx.getHash(): two bytes from the unsigned content of the transaction.
GetHash(tx) ==
    << (IF tx.type = "deploy" THEN 16 ELSE 32) + tx.code,
       16 * (Ord(tx.name) + Ord(tx.func)) + Digest(tx.params) >>

\* utils.reverseHex: the bytes in reverse order.
ReverseHex(h) == [i \in 1..Len(h) |-> h[Len(h) + 1 - i]]

Serialize(tx) ==
    [payload |-> <<tx.type, tx.code, tx.name, tx.func, tx.params>>, sigs |-> tx.sigs]

\* AbiInfo.getFunction: the first function of that name, with fresh parameters.
RECURSIVE FindFunction(_, _, _)
FindFunction(fs, name, i) ==
    IF i > Len(fs) THEN 0
    ELSE IF fs[i].name = name THEN i
    ELSE FindFunction(fs, name, i + 1)

NoFunction == [found |-> FALSE, name |-> "", parameters |-> <<>>]

GetFunction(abiInfo, hasName, name) ==
    LET i == IF hasName THEN FindFunction(abiInfo.functions, name, 1) ELSE 0
    IN  IF i = 0 THEN NoFunction
        ELSE [found |-> TRUE, name |-> abiInfo.functions[i].name,
              parameters |-> abiInfo.functions[i].parameters]

\* Parameter.setValue and AbiFunction.setParamsValue.
SetValue(p, v) ==
    IF v.type = p.type /\ v.name = p.name /\ v.value # NoValue
    THEN [p EXCEPT !.value = v.value] ELSE p

SetParamsValue(abiFunc, param) ==
    [abiFunc EXCEPT !.parameters =
        [j \in 1..Len(abiFunc.parameters) |->
            IF abiFunc.parameters[j].name = param.name
            THEN SetValue(abiFunc.parameters[j], param)
            ELSE abiFunc.parameters[j]]]

\* TxStatus of comm/transaction.js
TxStatus(id) == [id |-> id, failed |-> FALSE]
SetStatusFail(status) == [status EXCEPT !.failed = TRUE]
NoStatus == [id |-> <<>>, failed |-> FALSE]

-----------------------------------------------------------------------------
(* The adapter's own code *)

\* A set that merges the new functions into an entry already there.
MapSetMerge(map, name, entry) ==
    [n \in (DOMAIN map) \cup {name} |->
        IF n # name THEN map[n]
        ELSE IF name \in DOMAIN map
             THEN [entry EXCEPT !.functions = map[name].functions \o @]
             ELSE entry]

\* this.contractAbiInfo.set(name, abiInfo)
MapSet(map, name, entry) ==
    [n \in (DOMAIN map) \cup {name} |-> IF n = name THEN entry ELSE map[n]]

Event(ev, name) == [ev |-> ev, name |-> name]

\* A deploy submission as the forEach leaves it: the transport has not
\* answered, and no TxStatus was constructed for the transaction.
PendingAck == [state |-> "pending", result |-> 0, hasStatus |-> FALSE, status |-> NoStatus]

\* An iteration that submits the transaction as built, without signing it.
InstallItemUnsigned(st, item) ==
    LET vmCode == ReadFileSync(item.path)
        tx == MakeDeployCodeTransaction(vmCode, item.name, GasPrice, GasLimit, Address)
        abiInfo == AbiInfoOf(ReadFileSync(item.abi), vmCode)
    IN  [st EXCEPT !.posted = Append(@, Serialize(tx)),
                   !.acks = Append(@, PendingAck),
                   !.registry = MapSet(@, item.name, abiInfo),
                   !.log = @ \o << Event("build", item.name), Event("submit", item.name),
                                  Event("register", item.name) >>]

\* An iteration that puts the ABI into the registry before it submits.
InstallItemRegistersFirst(st, item) ==
    LET vmCode == ReadFileSync(item.path)
        tx == SignTransaction(
                  MakeDeployCodeTransaction(vmCode, item.name, GasPrice, GasLimit, Address),
                  st.key)
        abiInfo == AbiInfoOf(ReadFileSync(item.abi), vmCode)
    IN  [st EXCEPT !.posted = Append(@, Serialize(tx)),
                   !.acks = Append(@, PendingAck),
                   !.registry = MapSet(@, item.name, abiInfo),
                   !.log = @ \o << Event("build", item.name), Event("sign", item.name),
                                  Event("register", item.name), Event("submit", item.name) >>]

\* One iteration of the forEach of installSmartContract: build, sign, submit,
\* then read the ABI and register it. The promise postTx returns is dropped.
InstallItem(st, item) ==
    LET vmCode == ReadFileSync(item.path)
        tx == SignTransaction(
                  MakeDeployCodeTransaction(vmCode, item.name, GasPrice, GasLimit, Address),
                  st.key)
        abiInfo == AbiInfoOf(ReadFileSync(item.abi), vmCode)
    IN  [st EXCEPT !.posted = Append(@, Serialize(tx)),
                   !.acks = Append(@, PendingAck),
                   !.registry = MapSet(@, item.name, abiInfo),
                   !.log = @ \o << Event("build", item.name), Event("sign", item.name),
                                  Event("submit", item.name), Event("register", item.name) >>]

RECURSIVE InstallFrom(_, _, _)
InstallFrom(st, config, i) ==
    IF i > Len(config) THEN st
    ELSE InstallFrom(InstallItem(st, config[i]), config, i + 1)

\* A binding loop that reads args.args one place too early.
RECURSIVE BindShifted(_, _, _)
BindShifted(abiFunc, args, i) ==
    IF i > Len(abiFunc.parameters) THEN abiFunc
    ELSE LET p == abiFunc.parameters[i]
             v == IF i - 1 >= 1 /\ i - 1 <= Len(args.args) THEN args.args[i - 1] ELSE NoValue
         IN  BindShifted(SetParamsValue(abiFunc, Param(p.name, p.type, v)), args, i + 1)

\* The binding loop of invokeSmartContract, from parameter i on.
RECURSIVE BindFrom(_, _, _)
BindFrom(abiFunc, args, i) ==
    IF i > Len(abiFunc.parameters) THEN abiFunc
    ELSE LET p == abiFunc.parameters[i]
             v == IF i <= Len(args.args) THEN args.args[i] ELSE NoValue
         IN  BindFrom(SetParamsValue(abiFunc, Param(p.name, p.type, v)), args, i + 1)

Call(op, contractID, args, txHash, posted, hasStatus, status, returned, outcome, error) ==
    [op |-> op, contractID |-> contractID, args |-> args, txHash |-> txHash,
     posted |-> posted, hasStatus |-> hasStatus, status |-> status,
     returned |-> returned, result |-> <<>>, outcome |-> outcome, error |-> error]

\* A failed call that has made its status record before it throws.
ThrownWithStatus(contractID, args, error) ==
    Call("invoke", contractID, args, <<>>, <<>>, TRUE, TxStatus(<<>>), "throw", "thrown", error)

\* invokeSmartContract throws at line 131 or 135: nothing was built before.
Thrown(contractID, args, error) ==
    Call("invoke", contractID, args, <<>>, <<>>, FALSE, NoStatus, "throw", "thrown", error)

ErrNotDeployed == "the contract doesn't deploy!"
ErrNoFunc == "not define invoke contract func!"

\* The function check with && in place of ||.
InvokeRegisteredAnd(abiInfo, key, contractID, args) ==
    LET abiFunc == GetFunction(abiInfo, args.funcOwn # "absent", args.func)
    IN  IF args.funcOwn # "own" /\ ~abiFunc.found
        THEN Thrown(contractID, args, ErrNoFunc)
        ELSE IF Len(abiFunc.parameters) > 0 /\ ~args.hasArgs
        THEN Thrown(contractID, args, "TypeError")
        ELSE
        LET bound == BindFrom(abiFunc, args, 1)
            tx == SignTransaction(
                      MakeInvokeTransaction(bound.name, bound.parameters,
                          AddressFromVmCode(abiInfo.vmCode), GasPrice, GasLimit, Address),
                      key)
            txHash == ReverseHex(GetHash(tx))
        IN  Call("invoke", contractID, args, txHash, <<Serialize(tx)>>, TRUE,
                 TxStatus(txHash), "promise", "pending", "")

\* Lines 133-148 of invokeSmartContract: the contract is registered as abiInfo.
InvokeRegistered(abiInfo, key, contractID, args) ==
    LET abiFunc == GetFunction(abiInfo, args.funcOwn # "absent", args.func)
    IN  IF args.funcOwn # "own" \/ ~abiFunc.found
        THEN Thrown(contractID, args, ErrNoFunc)
        ELSE IF Len(abiFunc.parameters) > 0 /\ ~args.hasArgs
        THEN Thrown(contractID, args, "TypeError")
        ELSE
        LET bound == BindFrom(abiFunc, args, 1)
            tx == SignTransaction(
                      MakeInvokeTransaction(bound.name, bound.parameters,
                          AddressFromVmCode(abiInfo.vmCode), GasPrice, GasLimit, Address),
                      key)
            txHash == ReverseHex(GetHash(tx))
            invokeStatus == TxStatus(txHash)
        IN  Call("invoke", contractID, args, txHash, <<Serialize(tx)>>, TRUE,
                 invokeStatus, "promise", "pending", "")

\* An invoke that looks at args.func before it looks the contract up.
InvokeFuncFirst(registry, key, contractID, args) ==
    IF args.funcOwn # "own"
    THEN Thrown(contractID, args, ErrNoFunc)
    ELSE IF contractID \notin DOMAIN registry
    THEN Thrown(contractID, args, ErrNotDeployed)
    ELSE InvokeRegistered(registry[contractID], key, contractID, args)

\* invokeSmartContract up to its return: what the call does with the registry
\* `registry` and the key `key`.
InvokeSmartContract(registry, key, contractID, args) ==
    IF contractID \notin DOMAIN registry
    THEN Thrown(contractID, args, ErrNotDeployed)
    ELSE InvokeRegistered(registry[contractID], key, contractID, args)

\* A binding loop that writes into the Parameter objects the registry holds.
RegistryAfterInvokeShared(registry, contractID, args) ==
    IF contractID \notin DOMAIN registry THEN registry
    ELSE LET abiInfo == registry[contractID]
             abiFunc == GetFunction(abiInfo, args.funcOwn # "absent", args.func)
             i == FindFunction(abiInfo.functions, args.func, 1)
         IN  IF args.funcOwn # "own" \/ ~abiFunc.found \/ ~args.hasArgs THEN registry
             ELSE [registry EXCEPT ![contractID].functions[i].parameters =
                                       BindFrom(abiFunc, args, 1).parameters]

\* An invoke that forgets a contract whose function lookup failed.
RegistryAfterInvokeDrops(registry, contractID, args) ==
    IF contractID \in DOMAIN registry /\ args.funcOwn # "own"
    THEN [n \in (DOMAIN registry) \ {contractID} |-> registry[n]]
    ELSE registry

\* The registry after invokeSmartContract. The call reads the Map with get and
\* never calls set; getFunction hands out Parameter objects of its own, and
\* setParamsValue writes the arguments into those. The Map's entries stay.
RegistryAfterInvoke(registry, contractID, args) == registry

\* A transfer that returns invokeStatus itself instead of the promise.
TransferReturnsStatus(txHash, txData) ==
    Call("transfer", "", [funcOwn |-> "absent", func |-> "", hasArgs |-> FALSE, args |-> <<>>],
         txHash, <<txData>>, TRUE, TxStatus(txHash), "status", "pending", "")

\* transfer up to its return.
TransferCall(txHash, txData) ==
    Call("transfer", "", [funcOwn |-> "absent", func |-> "", hasArgs |-> FALSE, args |-> <<>>],
         txHash, <<txData>>, TRUE, TxStatus(txHash), "promise", "pending", "")

\* A callback that hands a refused transaction to the transport once more.
OnPostTxResultRetries(call, result) ==
    IF result < 0
    THEN [call EXCEPT !.status = SetStatusFail(@), !.result = <<result>>,
                      !.posted = @ \o @,
                      !.outcome = "rejected", !.error = "TypeError"]
    ELSE [call EXCEPT !.result = <<result>>, !.outcome = "resolved"]

\* A callback that makes a new failed status instead of marking invokeStatus.
OnPostTxResultNewStatus(call, result) ==
    IF result < 0
    THEN [call EXCEPT !.status = SetStatusFail(TxStatus(<<>>)), !.result = <<result>>,
                      !.outcome = "rejected", !.error = "TypeError"]
    ELSE [call EXCEPT !.result = <<result>>, !.outcome = "resolved"]

\* The then-callback of invoke and of transfer, run with the transport's result.
\* A negative result is a number, and result.GetID is not a function: the
\* callback throws after marking the status, and the promise rejects.
OnPostTxResult(call, result) ==
    IF result < 0
    THEN [call EXCEPT !.status = SetStatusFail(@), !.result = <<result>>,
                      !.outcome = "rejected", !.error = "TypeError"]
    ELSE [call EXCEPT !.result = <<result>>, !.outcome = "resolved"]

-----------------------------------------------------------------------------
(* Construction *)

ErrDecrypt == "decrypt wallet failed"

\* A constructor whose catch swallows the error.
ConstructorSwallows(w) ==
    [adapter |-> "ready", error |-> "", key |-> IF DecryptFails(w) THEN NoKey ELSE TheKey]

\* The constructor: decrypt inside try, any throw there becomes ErrDecrypt and
\* no instance is returned; otherwise the key is kept and the Map created.
Constructor(w) ==
    IF DecryptFails(w)
    THEN [adapter |-> "failed", error |-> ErrDecrypt, key |-> NoKey]
    ELSE [adapter |-> "ready", error |-> "", key |-> TheKey]

Init ==
    /\ adapter = "none"
    /\ constructError = ""
    /\ walletFile \in Wallets
    /\ contractConfig \in Configs
    /\ privateKey = NoKey
    /\ contractAbiInfo = <<>>
    /\ deployTxs = <<>>
    /\ deployAcks = <<>>
    /\ events = <<>>
    /\ calls = <<>>
    /\ height = 100
    /\ wpc = "idle"
    /\ wowner = "none"
    /\ currnetHeight = 0
    /\ newHeight = 0
    /\ obs = <<>>
    /\ polls = 0
    /\ sleeps = 0
    /\ installs = 0

Construct ==
    /\ adapter = "none"
    /\ LET made == Constructor(walletFile)
       IN  /\ adapter' = made.adapter
           /\ constructError' = made.error
           /\ privateKey' = made.key
    /\ contractAbiInfo' = <<>>
    /\ UNCHANGED <<deployAcks, events>>
    /\ UNCHANGED <<walletFile, contractConfig, deployTxs, calls, height, installs>>
    /\ UNCHANGED waitVars

-----------------------------------------------------------------------------
(* waitABlock *)

\* The test of line 192 with >= for >.
AdvancedOrEqual(new, current) == new >= current

\* The test of line 192.
Advanced(new, current) == new > current

\* The loop condition of line 198 with < for <=.
LoopAgainStrict(new, current) == new < current

\* The loop condition of line 198.
LoopAgain(new, current) == new <= current

Bump(n) == IF n < MaxPolls THEN n + 1 ELSE n

StartWait(owner) ==
    /\ wpc \in {"idle", "done"}
    /\ wpc' = "base"
    /\ wowner' = owner
    /\ currnetHeight' = 0
    /\ newHeight' = 0
    /\ obs' = <<>>
    /\ polls' = 0
    /\ sleeps' = 0

\* A caller other than installSmartContract calls waitABlock.
WaitABlock ==
    /\ adapter = "ready"
    /\ StartWait("direct")
    /\ UNCHANGED <<deployAcks, events>>
    /\ UNCHANGED <<adapter, constructError, walletFile, contractConfig, privateKey,
                   contractAbiInfo, deployTxs, calls, height, installs>>

\* Line 188-189: the first getHeight answers.
ReadBaseline ==
    /\ wpc = "base"
    /\ currnetHeight' = height
    /\ newHeight' = height
    /\ obs' = <<height>>
    /\ wpc' = "read"
    /\ events' = IF wowner = "install" THEN Append(events, Event("baseline", "")) ELSE events
    /\ UNCHANGED deployAcks
    /\ UNCHANGED <<adapter, constructError, walletFile, contractConfig, privateKey,
                   contractAbiInfo, deployTxs, calls, height, installs, wowner,
                   polls, sleeps>>

\* Lines 191-196: getHeight inside the loop answers; break or start the sleep.
Poll ==
    /\ wpc = "read"
    /\ newHeight' = height
    /\ polls' = Bump(polls)
    /\ obs' = IF Len(obs) <= MaxPolls THEN Append(obs, height) ELSE obs
    /\ IF Advanced(height, currnetHeight)
       THEN wpc' = "done" /\ sleeps' = sleeps
       ELSE wpc' = "sleep" /\ sleeps' = Bump(sleeps)
    /\ events' = IF wowner = "install" /\ wpc' = "done"
                 THEN Append(events, Event("complete", "")) ELSE events
    /\ UNCHANGED deployAcks
    /\ UNCHANGED <<adapter, constructError, walletFile, contractConfig, privateKey,
                   contractAbiInfo, deployTxs, calls, height, installs, wowner,
                   currnetHeight>>

\* Lines 195-198: the sleep ends and the loop condition is tested.
Wake ==
    /\ wpc = "sleep"
    /\ wpc' = IF LoopAgain(newHeight, currnetHeight) THEN "read" ELSE "done"
    /\ events' = IF wowner = "install" /\ wpc' = "done"
                 THEN Append(events, Event("complete", "")) ELSE events
    /\ UNCHANGED deployAcks
    /\ UNCHANGED <<adapter, constructError, walletFile, contractConfig, privateKey,
                   contractAbiInfo, deployTxs, calls, height, installs, wowner,
                   currnetHeight, newHeight, obs, polls, sleeps>>

\* The network produces a block.
Tick ==
    /\ height < MaxHeight
    /\ height' = height + 1
    /\ UNCHANGED <<deployAcks, events>>
    /\ UNCHANGED <<adapter, constructError, walletFile, contractConfig, privateKey,
                   contractAbiInfo, deployTxs, calls, installs>>
    /\ UNCHANGED waitVars

-----------------------------------------------------------------------------
(* installSmartContract, invokeSmartContract, transfer *)

\* Lines 58-78: the whole forEach, then the call of waitABlock.
InstallSmartContract ==
    /\ adapter = "ready"
    /\ installs < MaxInstalls
    /\ LET st == InstallFrom([key |-> privateKey, posted |-> deployTxs,
                              acks |-> deployAcks, registry |-> contractAbiInfo,
                              log |-> events], contractConfig, 1)
       IN  /\ contractAbiInfo' = st.registry
           /\ deployTxs' = st.posted
           /\ deployAcks' = st.acks
           /\ events' = st.log
    /\ installs' = installs + 1
    /\ StartWait("install")
    /\ UNCHANGED <<adapter, constructError, walletFile, contractConfig, privateKey,
                   calls, height>>

\* A caller invokes, while fewer than max calls were made, with a contract name
\* of ids and an argument object of argSet.
InvokeUpTo(max, ids, argSet) ==
    /\ adapter = "ready"
    /\ Len(calls) < max
    /\ \E contractID \in ids, args \in argSet :
           /\ calls' = Append(calls,
                          InvokeSmartContract(contractAbiInfo, privateKey, contractID, args))
           /\ contractAbiInfo' = RegistryAfterInvoke(contractAbiInfo, contractID, args)
    /\ UNCHANGED <<deployAcks, events>>
    /\ UNCHANGED <<adapter, constructError, walletFile, contractConfig, privateKey,
                   deployTxs, height, installs>>
    /\ UNCHANGED waitVars

Invoke == InvokeUpTo(MaxCalls, ContractNames, InvokeArgs)

TransferUpTo(max) ==
    /\ adapter = "ready"
    /\ Len(calls) < max
    /\ \E txHash \in TransferHashes, txData \in TransferData :
           calls' = Append(calls, TransferCall(txHash, txData))
    /\ UNCHANGED <<deployAcks, events>>
    /\ UNCHANGED <<adapter, constructError, walletFile, contractConfig, privateKey,
                   contractAbiInfo, deployTxs, height, installs>>
    /\ UNCHANGED waitVars

Transfer == TransferUpTo(MaxCalls)

\* A callback that marks one status record kept by the adapter, that of the
\* latest call, instead of the record its own call made.
PostTxResultMarksLatest ==
    /\ \E i \in DOMAIN calls, result \in Results :
           /\ calls[i].outcome = "pending"
           /\ LET answered == [calls EXCEPT ![i] = [OnPostTxResult(@, result) EXCEPT
                                                       !.status = calls[i].status]]
              IN  calls' = IF result < 0
                           THEN [answered EXCEPT ![Len(calls)].status = SetStatusFail(@)]
                           ELSE answered
    /\ UNCHANGED <<deployAcks, events>>
    /\ UNCHANGED <<adapter, constructError, walletFile, contractConfig, privateKey,
                   contractAbiInfo, deployTxs, height, installs>>
    /\ UNCHANGED waitVars

\* NetUtil.postTx answers a pending call: its then-callback runs.
PostTxResult ==
    /\ \E i \in DOMAIN calls, result \in Results :
           /\ calls[i].outcome = "pending"
           /\ calls' = [calls EXCEPT ![i] = OnPostTxResult(@, result)]
    /\ UNCHANGED <<deployAcks, events>>
    /\ UNCHANGED <<adapter, constructError, walletFile, contractConfig, privateKey,
                   contractAbiInfo, deployTxs, height, installs>>
    /\ UNCHANGED waitVars

\* NetUtil.postTx rejects: no callback runs, the returned promise rejects.
PostTxReject ==
    /\ \E i \in DOMAIN calls :
           /\ calls[i].outcome = "pending"
           /\ calls' = [calls EXCEPT ![i] = [@ EXCEPT !.outcome = "rejected",
                                                     !.error = "TransportError"]]
    /\ UNCHANGED <<deployAcks, events>>
    /\ UNCHANGED <<adapter, constructError, walletFile, contractConfig, privateKey,
                   contractAbiInfo, deployTxs, height, installs>>
    /\ UNCHANGED waitVars

\* A registry that loses the entry of a deploy the transport refused.
AfterDeployResultRollsBack(registry, name, result) ==
    IF result < 0 THEN [n \in (DOMAIN registry) \ {name} |-> registry[n]] ELSE registry

\* The registry after NetUtil.postTx answered a deploy submission: the promise
\* was dropped at the call, no callback is attached, nothing of the adapter runs.
AfterDeployResult(registry, name, result) == registry

\* NetUtil.postTx answers a deploy submission.
DeployResult ==
    /\ \E k \in DOMAIN deployAcks, result \in Results :
           /\ deployAcks[k].state = "pending"
           /\ deployAcks' = [deployAcks EXCEPT ![k] = [@ EXCEPT !.state = "resolved",
                                                              !.result = result]]
           /\ contractAbiInfo' = AfterDeployResult(contractAbiInfo,
                                     deployTxs[k].payload[3], result)
    /\ UNCHANGED <<adapter, constructError, walletFile, contractConfig, privateKey,
                   deployTxs, events, calls, height, installs>>
    /\ UNCHANGED waitVars

\* NetUtil.postTx rejects a deploy submission: the rejection is unhandled.
DeployReject ==
    /\ \E k \in DOMAIN deployAcks :
           /\ deployAcks[k].state = "pending"
           /\ deployAcks' = [deployAcks EXCEPT ![k] = [@ EXCEPT !.state = "rejected"]]
    /\ UNCHANGED <<adapter, constructError, walletFile, contractConfig, privateKey,
                   contractAbiInfo, deployTxs, events, calls, height, installs>>
    /\ UNCHANGED waitVars

\* The adapter from before its construction on, with installSmartContract as
\* the caller of waitABlock.
Next ==
    \/ Construct
    \/ InstallSmartContract
    \/ Invoke
    \/ Transfer
    \/ PostTxResult
    \/ PostTxReject
    \/ ReadBaseline
    \/ Poll
    \/ Wake
    \/ Tick

Spec == Init /\ [][Next]_vars

\* The poller alone, on a constructed adapter, called by installSmartContract or
\* directly. Every getHeight answers and every sleep ends (weak fairness of the
\* poller's steps); the network need not produce a block.
GoodWallet == [hasAccount |-> TRUE, intact |-> TRUE, keyPassword |-> "pw", password |-> "pw"]

PollerInit ==
    /\ adapter = "ready"
    /\ constructError = ""
    /\ walletFile = GoodWallet
    /\ contractConfig \in Configs
    /\ privateKey = TheKey
    /\ contractAbiInfo = <<>>
    /\ deployTxs = <<>>
    /\ deployAcks = <<>>
    /\ events = <<>>
    /\ calls = <<>>
    /\ height = 100
    /\ wpc = "idle"
    /\ wowner = "none"
    /\ currnetHeight = 0
    /\ newHeight = 0
    /\ obs = <<>>
    /\ polls = 0
    /\ sleeps = 0
    /\ installs = 0

PollerNext ==
    \/ InstallSmartContract
    \/ WaitABlock
    \/ ReadBaseline
    \/ Poll
    \/ Wake
    \/ Tick

PollerSpec ==
    /\ PollerInit
    /\ [][PollerNext]_vars
    /\ WF_vars(ReadBaseline)
    /\ WF_vars(Poll)
    /\ WF_vars(Wake)

\* Deployment with the transport answering: a constructed adapter installs,
\* and NetUtil.postTx answers the deploy submissions whenever it does.
DeployNext ==
    \/ InstallSmartContract
    \/ DeployResult
    \/ DeployReject
    \/ ReadBaseline
    \/ Poll
    \/ Wake
    \/ Tick

DeploySpec == PollerInit /\ [][DeployNext]_vars

\* Calls in flight: an adapter whose installSmartContract has returned after one
\* block, with its deploy submissions unanswered, then invoked and asked to
\* transfer while earlier calls still wait for the transport.
FlightArgs ==
    { [funcOwn |-> "own", func |-> "f", hasArgs |-> TRUE, args |-> <<"v1", "v2">>],
      [funcOwn |-> "own", func |-> "f", hasArgs |-> TRUE, args |-> <<"v1">>],
      [funcOwn |-> "absent", func |-> "", hasArgs |-> FALSE, args |-> <<>>] }

Installed(config) ==
    InstallFrom([key |-> TheKey, posted |-> <<>>, acks |-> <<>>, registry |-> <<>>,
                 log |-> <<>>], config, 1)

FlightInit ==
    /\ adapter = "ready"
    /\ constructError = ""
    /\ walletFile = GoodWallet
    /\ contractConfig \in Configs
    /\ privateKey = TheKey
    /\ contractAbiInfo = Installed(contractConfig).registry
    /\ deployTxs = Installed(contractConfig).posted
    /\ deployAcks = Installed(contractConfig).acks
    /\ events = Installed(contractConfig).log \o <<Event("baseline", ""), Event("complete", "")>>
    /\ calls = <<>>
    /\ height = 101
    /\ wpc = "done"
    /\ wowner = "install"
    /\ currnetHeight = 100
    /\ newHeight = 101
    /\ obs = <<100, 101>>
    /\ polls = 1
    /\ sleeps = 0
    /\ installs = 1

FlightInvoke == InvokeUpTo(MaxFlight, {"Token"}, FlightArgs)
FlightTransfer == TransferUpTo(MaxFlight)

FlightNext ==
    \/ FlightInvoke
    \/ FlightTransfer
    \/ PostTxResult
    \/ PostTxReject
    \/ DeployResult
    \/ DeployReject

FlightSpec == FlightInit /\ [][FlightNext]_vars

-----------------------------------------------------------------------------
(* Vocabulary of the properties *)

Invokes == { i \in DOMAIN calls : calls[i].op = "invoke" }
Submitted == { i \in DOMAIN calls : calls[i].hasStatus }
Responded(c) == c.result # <<>>

\* The caller has the status record in hand: returned by the call itself, or
\* delivered as the value of the promise the call returned.
CallerHoldsStatus(c) == c.returned = "status" \/ c.outcome = "resolved"

\* The transaction a serialized payload came from.
Deserialize(p) ==
    [type |-> p.payload[1], code |-> p.payload[2], name |-> p.payload[3],
     func |-> p.payload[4], params |-> p.payload[5], gasPrice |-> GasPrice,
     gasLimit |-> GasLimit, payer |-> Address, sigs |-> p.sigs]

\* The identifier a call's status record is to carry.
HashOfCall(c) ==
    IF c.op = "invoke" THEN ReverseHex(GetHash(Deserialize(c.posted[1]))) ELSE c.txHash

FunctionNamesOf(abiInfo) == { abiInfo.functions[k].name : k \in DOMAIN abiInfo.functions }

Named(config, n) == \E k \in DOMAIN config : config[k].name = n

LastNamed(config, n) ==
    CHOOSE k \in DOMAIN config :
        config[k].name = n /\ \A j \in DOMAIN config : j > k => config[j].name # n

\* C1: every invoke or transfer whose postTx result has arrived has resolved
\* to its status record, which carries the hash of the call's transaction and
\* is failed exactly when the result is negative.
C1_ResultDeliversStatus ==
    \A i \in Submitted :
        Responded(calls[i]) =>
            /\ calls[i].outcome = "resolved"
            /\ calls[i].status.id = HashOfCall(calls[i])
            /\ calls[i].status.failed = (calls[i].result[1] < 0)

\* A step that is a call of invokeSmartContract, and the call it adds.
InvokeStep == Len(calls') = Len(calls) + 1 /\ calls'[Len(calls')].op = "invoke"
NewCall == calls'[Len(calls')]

\* C2: an invoke made while the registry has no entry for its contract name
\* throws the contract-not-deployed error, whatever its func and args, and
\* submits nothing; so every accepted invoke found an entry.
C2_InvokeNeedsRegistryEntry ==
    [][(InvokeStep /\ NewCall.contractID \notin DOMAIN contractAbiInfo) =>
           /\ NewCall.outcome = "thrown"
           /\ NewCall.error = ErrNotDeployed
           /\ NewCall.posted = <<>>
           /\ ~NewCall.hasStatus]_vars

C2_Witness ==
    \E i \in Invokes :
        /\ installs > 0
        /\ calls[i].contractID \notin DOMAIN contractAbiInfo
        /\ calls[i].args.funcOwn = "own"
        /\ calls[i].args.args # <<>>
        /\ calls[i].error = ErrNotDeployed

\* C3: an invoke made after installSmartContract processed a descriptor of its
\* contract name, with an own func of the ABI last registered under that name
\* and as many args as that function has parameters, raises nothing, binds
\* every parameter to its arg in order, and submits one signed transaction.
C3_InvokeAfterInstallBinds ==
    [][(/\ InvokeStep
        /\ installs > 0
        /\ Named(contractConfig, NewCall.contractID)
        /\ NewCall.args.funcOwn = "own"
        /\ NewCall.args.hasArgs) =>
           LET c == NewCall
               abi == ReadFileSync(contractConfig[LastNamed(contractConfig, c.contractID)].abi)
               k == FindFunction(abi.functions, c.args.func, 1)
           IN  (k # 0 /\ Len(c.args.args) = Len(abi.functions[k].parameters)) =>
                   /\ c.outcome = "pending"
                   /\ c.error = ""
                   /\ Len(c.posted) = 1
                   /\ c.posted[1].payload[1] = "invoke"
                   /\ c.posted[1].payload[4] = c.args.func
                   /\ c.posted[1].payload[5] = c.args.args
                   /\ c.posted[1].sigs = <<privateKey>>]_vars

C3_Witness ==
    \E i \in Invokes :
        /\ installs > 0
        /\ wpc = "done"
        /\ calls[i].contractID = "Token"
        /\ calls[i].args.func = "f"
        /\ calls[i].args.args = <<"v1", "v2">>
        /\ calls[i].posted # <<>>
        /\ calls[i].posted[1].payload[5] = <<"v1", "v2">>

\* C4: an invoke of a registered contract whose args has no func, or whose
\* func is no function of the registered ABI, throws the function-undefined
\* error, with or without args.args.
C4_UndefinedFuncThrows ==
    [][(/\ InvokeStep
        /\ NewCall.contractID \in DOMAIN contractAbiInfo
        /\ \/ NewCall.args.funcOwn = "absent"
           \/ NewCall.args.func \notin FunctionNamesOf(contractAbiInfo[NewCall.contractID])) =>
           /\ NewCall.outcome = "thrown"
           /\ NewCall.error = ErrNoFunc
           /\ NewCall.posted = <<>>]_vars

C4_Witness ==
    \E i \in Invokes :
        /\ calls[i].contractID \in DOMAIN contractAbiInfo
        /\ calls[i].args.funcOwn = "own"
        /\ calls[i].args.func \notin FunctionNamesOf(contractAbiInfo[calls[i].contractID])
        /\ calls[i].args.args = <<"v1">>
        /\ calls[i].error = ErrNoFunc

\* C5: waitABlock reads a baseline, sleeps once after every loop reading that
\* is not above it, and returns at the first reading above it without another
\* sleep; on the readings 100, 100, 100, 101 that is 3 polls and 2 sleeps.
C5_PollsAndSleeps ==
    /\ (wpc \in {"read", "sleep"} /\ polls < MaxPolls) =>
           /\ sleeps = polls
           /\ Len(obs) = polls + 1
           /\ \A k \in 1..Len(obs) : obs[k] <= currnetHeight
    /\ (wpc = "done" /\ polls < MaxPolls) =>
           /\ polls >= 1
           /\ sleeps = polls - 1
           /\ Len(obs) = polls + 1
           /\ obs[1] = currnetHeight
           /\ obs[Len(obs)] > currnetHeight
           /\ \A k \in 1..(Len(obs) - 1) : obs[k] <= currnetHeight
    /\ (wpc = "done" /\ obs = <<100, 100, 100, 101>>) => (polls = 3 /\ sleeps = 2)

C5_Witness ==
    /\ wpc = "done"
    /\ obs = <<100, 100, 100, 101>>
    /\ polls = 3
    /\ sleeps = 2

\* C6: waitABlock returns only on a reading above its baseline, so no step
\* taken while the height is at or below the baseline returns; and once the
\* height is above the baseline of a running waitABlock, it returns.
C6_ReturnsOnlyAndWhenAdvanced ==
    /\ [](wpc = "done" => (newHeight > currnetHeight /\ height > currnetHeight))
    /\ [][(wpc \in {"read", "sleep"} /\ height' <= currnetHeight)
              => wpc' \in {"read", "sleep"}]_vars
    /\ ((wpc \in {"read", "sleep"} /\ height > currnetHeight) ~> (wpc = "done"))

C6_Witness ==
    /\ wpc = "read"
    /\ polls = MaxPolls
    /\ sleeps = MaxPolls
    /\ height = currnetHeight
    /\ \A k \in 1..Len(obs) : obs[k] = currnetHeight

\* C7: once installSmartContract has run, a lookup of a configured name gives
\* exactly the ABI and bytecode of the last descriptor of that name (an
\* earlier descriptor of the name leaves nothing behind), and registering one
\* name leaves the entry of another as it was.
C7_RegistryRoundTrip ==
    /\ installs = 0 => DOMAIN contractAbiInfo = {}
    /\ installs > 0 =>
           \A n \in ContractNames :
               IF Named(contractConfig, n)
               THEN LET d == contractConfig[LastNamed(contractConfig, n)]
                    IN  /\ n \in DOMAIN contractAbiInfo
                        /\ contractAbiInfo[n].functions = ReadFileSync(d.abi).functions
                        /\ contractAbiInfo[n].vmCode = ReadFileSync(d.path)
               ELSE n \notin DOMAIN contractAbiInfo

C7_Witness ==
    /\ contractConfig = <<TokenF, TokenG>>
    /\ installs > 0
    /\ FunctionNamesOf(contractAbiInfo["Token"]) = {"g"}
    /\ contractAbiInfo["Token"].vmCode = ReadFileSync("two.avm")

\* C8: a wallet whose decryption fails makes the constructor throw 'decrypt
\* wallet failed' and leaves no adapter to call; whenever an operation has
\* run, the key was decrypted and every signature was made with it.
OperationRan == installs > 0 \/ calls # <<>> \/ wpc # "idle" \/ deployTxs # <<>>

C8_DecryptFailureIsFatal ==
    /\ (adapter # "none" /\ DecryptFails(walletFile)) =>
           (adapter = "failed" /\ constructError = ErrDecrypt /\ privateKey = NoKey)
    /\ adapter = "failed" => ~OperationRan
    /\ OperationRan =>
           /\ adapter = "ready"
           /\ privateKey = TheKey
           /\ \A k \in DOMAIN deployTxs : deployTxs[k].sigs = <<TheKey>>
           /\ \A i \in Invokes : calls[i].posted # <<>> => calls[i].posted[1].sigs = <<TheKey>>

C8_Witness ==
    /\ adapter = "failed"
    /\ constructError = ErrDecrypt
    /\ walletFile.password # walletFile.keyPassword

\* C9: a status record's identifier is the hash of the signed transaction of
\* its call (invoke: the reversed hash; transfer: the hash the caller gave),
\* and no step changes it, the processing of the transport's answer included.
C9_IdentifierStable ==
    /\ [](\A i \in Submitted :
              /\ calls[i].status.id = HashOfCall(calls[i])
              /\ calls[i].op = "invoke" => calls[i].posted[1].sigs # <<>>)
    /\ [][\A i \in Submitted : calls'[i].status.id = calls[i].status.id]_vars

C9_Witness ==
    \E i \in Submitted :
        /\ calls[i].op = "invoke"
        /\ Responded(calls[i])
        /\ calls[i].result[1] < 0
        /\ calls[i].status.failed
        /\ calls[i].status.id = HashOfCall(calls[i])
        /\ calls[i].status.id # GetHash(Deserialize(calls[i].posted[1]))

-----------------------------------------------------------------------------
(* Claims C11 to C20 *)

\* A deploy submission the transport answered with a negative result.
DeployRefused(k) == deployAcks[k].state = "resolved" /\ deployAcks[k].result < 0

\* C11: every submission path produces a status record, and a negative
\* transport result for a submitted transaction is observable as a failed
\* status: a refused deploy submission has a failed status record, and the
\* caller of a refused invoke or transfer holds the failed record.
C11_RefusalObservableAsFailedStatus ==
    /\ \A k \in DOMAIN deployTxs :
           DeployRefused(k) => deployAcks[k].hasStatus /\ deployAcks[k].status.failed
    /\ \A i \in Submitted :
           (Responded(calls[i]) /\ calls[i].result[1] < 0) =>
               CallerHoldsStatus(calls[i]) /\ calls[i].status.failed

\* The events of one installSmartContract call: four per descriptor, then the
\* poller's baseline reading, then the return.
StepNames == <<"build", "sign", "submit", "register">>
RoundLen(config) == 4 * Len(config) + 2
ExpectedEvent(config, off) ==
    IF off <= 4 * Len(config)
    THEN Event(StepNames[((off - 1) % 4) + 1], config[((off - 1) \div 4) + 1].name)
    ELSE IF off = 4 * Len(config) + 1 THEN Event("baseline", "")
    ELSE Event("complete", "")

\* C12: in installSmartContract the events of each descriptor, in configuration
\* order, are build, sign, submit, registry insert; the poller reads its
\* baseline only after every descriptor is submitted and registered; and the
\* call completes only after a height strictly above that baseline was read.
C12_InstallOrder ==
    LET n == RoundLen(contractConfig)
    IN  /\ Len(events) <= installs * n
        /\ installs > 0 => Len(events) >= (installs - 1) * n + 4 * Len(contractConfig)
        /\ \A p \in DOMAIN events :
               events[p] = ExpectedEvent(contractConfig, ((p - 1) % n) + 1)
        /\ (wowner = "install" /\ wpc # "base") =>
               /\ Len(events) >= (installs - 1) * n + 4 * Len(contractConfig) + 1
               /\ Len(deployTxs) = installs * Len(contractConfig)
               /\ \A k \in DOMAIN contractConfig :
                      contractConfig[k].name \in DOMAIN contractAbiInfo
        /\ (installs > 0 /\ Len(events) = installs * n) <=> (wowner = "install" /\ wpc = "done")
        /\ (wowner = "install" /\ wpc = "done") =>
               /\ newHeight > currnetHeight
               /\ obs[1] = currnetHeight
               /\ polls < MaxPolls => obs[Len(obs)] = newHeight

C12_Witness ==
    /\ Len(contractConfig) = 2
    /\ Len(events) = RoundLen(contractConfig)
    /\ events[4] = Event("register", contractConfig[1].name)
    /\ events[7] = Event("submit", contractConfig[2].name)
    /\ wpc = "done"
    /\ sleeps >= 1

\* The parameter values held by the function objects of the registry.
RegistryValues(registry) ==
    { registry[n].functions[i].parameters[j].value :
          <<n, i, j>> \in { t \in (DOMAIN registry) \X (1..2) \X (1..2) :
                               /\ t[2] <= Len(registry[t[1]].functions)
                               /\ t[3] <= Len(registry[t[1]].functions[t[2]].parameters) } }

AbiFileOf(n) == ReadFileSync(contractConfig[LastNamed(contractConfig, n)].abi)
VmCodeOf(n) == ReadFileSync(contractConfig[LastNamed(contractConfig, n)].path)

\* What a call's transaction must carry, read off the call's own inputs and
\* the files of the registered contract: the contract's address, the function
\* named by args.func, and for each parameter of that function the argument
\* at its place, or no value where args.args is shorter.
PayloadFor(contractID, args) ==
    LET fs == AbiFileOf(contractID).functions
        f == fs[CHOOSE k \in DOMAIN fs : fs[k].name = args.func]
    IN  << "invoke", AddressFromVmCode(VmCodeOf(contractID)), "", args.func,
           [j \in 1..Len(f.parameters) |->
               IF j <= Len(args.args) THEN args.args[j] ELSE NoValue] >>

Accepted == { i \in Invokes : calls[i].hasStatus }

FailsPrecondition(c) ==
    \/ c.contractID \notin DOMAIN contractAbiInfo
    \/ c.args.funcOwn # "own"
    \/ c.args.func \notin FunctionNamesOf(contractAbiInfo[c.contractID])

\* C15: an invokeSmartContract call whose contract is not registered, or whose
\* func is missing or not in the ABI, throws at once: it builds, signs and
\* submits no transaction, creates no status record and leaves the registry
\* as it was; and nothing is submitted for it later.
C15_FailedPreconditionDoesNothing ==
    /\ [][(InvokeStep /\ FailsPrecondition(NewCall)) =>
              /\ NewCall.returned = "throw"
              /\ NewCall.outcome = "thrown"
              /\ NewCall.txHash = <<>>
              /\ NewCall.posted = <<>>
              /\ ~NewCall.hasStatus
              /\ NewCall.status = NoStatus
              /\ contractAbiInfo' = contractAbiInfo
              /\ deployTxs' = deployTxs]_vars
    /\ [](\A i \in DOMAIN calls :
              calls[i].outcome = "thrown" =>
                  calls[i].posted = <<>> /\ ~calls[i].hasStatus /\ calls[i].result = <<>>)

C15_Witness ==
    /\ "Token" \in DOMAIN contractAbiInfo
    /\ "Other" \notin DOMAIN contractAbiInfo
    /\ \E i \in Invokes :
           /\ calls[i].outcome = "thrown"
           /\ calls[i].posted = <<>>
           /\ \/ calls[i].contractID = "Other" /\ calls[i].error = ErrNotDeployed
              \/ calls[i].contractID = "Token" /\ calls[i].error = ErrNoFunc

\* A step in which the transport answers: no call is added.
ResponseStep == Len(calls') = Len(calls) /\ installs' = installs

\* C16: the adapter hands exactly one transaction to postTx for every invoke
\* call that passes its preconditions, for every transfer call and for every
\* descriptor of a deploy call, none for a call that throws, and a transport
\* answer, negative or failed, never makes it submit anything again.
C16_OneSubmissionEach ==
    /\ [](/\ Len(deployTxs) = installs * Len(contractConfig)
          /\ \A k \in DOMAIN deployTxs :
                 deployTxs[k].payload[3] =
                     contractConfig[((k - 1) % Len(contractConfig)) + 1].name
          /\ \A i \in DOMAIN calls :
                 /\ calls[i].op = "transfer" => Len(calls[i].posted) = 1
                 /\ calls[i].outcome # "thrown" => Len(calls[i].posted) = 1
                 /\ calls[i].outcome = "thrown" => Len(calls[i].posted) = 0)
    /\ [][ResponseStep =>
              /\ deployTxs' = deployTxs
              /\ \A i \in DOMAIN calls : calls'[i].posted = calls[i].posted]_vars

C16_Witness ==
    /\ Len(deployTxs) = 2
    /\ DeployRefused(1)
    /\ deployAcks[2].state = "rejected"
    /\ Len(calls) = 2
    /\ calls[1].op = "invoke" /\ calls[1].result = <<-1>> /\ Len(calls[1].posted) = 1
    /\ calls[2].op = "transfer" /\ calls[2].error = "TransportError"
    /\ Len(calls[2].posted) = 1

\* C17: every deploy and every invoke transaction handed to the transport
\* carries exactly one signature, made with the adapter's private key before
\* the transaction was serialized, and the hash reported for an invoke is the
\* hash of that signed transaction; a transfer hands over the caller's payload
\* as it came, with nothing signed.
C17_SignedOnceBeforeSubmission ==
    /\ \A k \in DOMAIN deployTxs :
           /\ deployTxs[k].sigs = <<privateKey>>
           /\ privateKey = TheKey
    /\ \A p \in DOMAIN events :
           events[p].ev = "submit" =>
               /\ p > 2
               /\ events[p - 1] = Event("sign", events[p].name)
               /\ events[p - 2] = Event("build", events[p].name)
    /\ \A i \in DOMAIN calls :
           /\ (calls[i].op = "invoke" /\ calls[i].posted # <<>>) =>
                  /\ calls[i].posted[1].sigs = <<privateKey>>
                  /\ privateKey = TheKey
                  /\ calls[i].txHash = ReverseHex(GetHash(Deserialize(calls[i].posted[1])))
           /\ calls[i].op = "transfer" =>
                  /\ calls[i].posted \in { <<txData>> : txData \in TransferData }
                  /\ calls[i].txHash \in TransferHashes

C17_Witness ==
    /\ Len(deployTxs) = 2
    /\ deployTxs[1].sigs = <<TheKey>> /\ deployTxs[2].sigs = <<TheKey>>
    /\ \E i \in Accepted : calls[i].posted[1].sigs = <<TheKey>>

\* C18: with several invoke and transfer calls waiting for the transport, in
\* whatever order the answers come, the status record of each call carries
\* the hash of that call's transaction and is failed exactly when that call's
\* own result was negative; an answer changes the record of one call only.
C18_EachRecordItsOwn ==
    /\ [](\A i \in Submitted :
              /\ calls[i].status.id = HashOfCall(calls[i])
              /\ calls[i].status.failed <=>
                     (Responded(calls[i]) /\ calls[i].result[1] < 0))
    /\ [][ResponseStep =>
              \A i, k \in DOMAIN calls :
                  (i # k /\ calls'[i] # calls[i]) => calls'[k] = calls[k]]_vars

C18_Witness ==
    /\ Len(calls) = 2
    /\ Submitted = {1, 2}
    /\ calls[1].op = "invoke" /\ calls[2].op = "invoke"
    /\ calls[1].outcome = "pending" /\ ~calls[1].status.failed
    /\ calls[2].result = <<-1>> /\ calls[2].status.failed
    /\ calls[1].status.id # calls[2].status.id

\* C19: the registry is append-only: a name that has an entry has one in every
\* later state; no invoke, transfer, poll, transport answer, later deploy or
\* failed call removes a name.
C19_RegistryOnlyGrows ==
    [][DOMAIN contractAbiInfo \subseteq DOMAIN contractAbiInfo']_vars

C19_Witness ==
    /\ installs = 2
    /\ DOMAIN contractAbiInfo = {"Token", "Other"}
    /\ \E i \in Invokes :
           /\ calls[i].outcome = "thrown"
           /\ calls[i].error = ErrNoFunc
           /\ calls[i].contractID \in DOMAIN contractAbiInfo

\* A step in which the transport answers a deploy submission.
DeployAnswerStep == deployAcks' # deployAcks /\ Len(deployAcks') = Len(deployAcks)

\* C20: installSmartContract neither waits for nor looks at what the transport
\* answers to its deploy submissions. Every descriptor's name is registered as
\* soon as the forEach has run, with the answers still out; an answer, be it
\* negative or a rejection, changes nothing of the adapter; and the poller's
\* next step is possible whatever the answers are, so the call returns on the
\* first reading above its baseline.
C20_DeployIgnoresTransportResult ==
    /\ [](installs > 0 =>
              /\ contractAbiInfo = Installed(contractConfig).registry
              /\ Len(deployAcks) = Len(deployTxs))
    /\ [][DeployAnswerStep =>
              UNCHANGED <<adapter, constructError, walletFile, contractConfig, privateKey,
                          contractAbiInfo, deployTxs, events, calls, height, installs,
                          waitVars>>]_vars
    /\ [](/\ wpc = "base" => ENABLED ReadBaseline
          /\ wpc = "read" => ENABLED Poll
          /\ wpc = "sleep" => ENABLED Wake)

C20_Witness ==
    /\ wowner = "install" /\ wpc = "done"
    /\ installs = 1
    /\ Len(deployAcks) = 2
    /\ DeployRefused(1)
    /\ deployAcks[2].state = "pending"
    /\ deployTxs[1].payload[3] \in DOMAIN contractAbiInfo
    /\ deployTxs[2].payload[3] \in DOMAIN contractAbiInfo

====
